---- MODULE Spec2Model ----
(***************************************************************************)
(* Model of src/bot2.py: a Telegram bot that gates a request behind a      *)
(* channel/group membership check (check_handler), captures a "batch"      *)
(* token (batch_handler) and then runs a background search over the        *)
(* groups listed in groups.txt (fetch_and_send_apply_links).               *)
(*                                                                         *)
(* The application is built with concurrent_updates(1000) (line 243), so   *)
(* every update is processed in its own asyncio task: a handler is a       *)
(* sequence of steps, one per await, and steps of different handlers and   *)
(* of the search tasks interleave.  The ConversationHandler reads the      *)
(* conversation state when the update is routed and writes it when the     *)
(* handler returns.                                                        *)
(*                                                                         *)
(* Strings are sequences of one-character strings.  Time is counted in     *)
(* whole days.                                                             *)
(***************************************************************************)
EXTENDS Integers, Sequences, FiniteSets, TLC

\* ---------------------------------------------------------------- bounds
MaxUpdates == 3        \* updates received in one run of Spec
MaxMsgs == 1           \* messages in the history of source A in SpecSearch
Today == 50            \* the day on which the run takes place

\* ------------------------------------------------------ program constants
BATCH == 1             \* line 121
END == -1              \* ConversationHandler.END, returned at lines 149, 167
NoState == 0           \* Python None: no conversation key / handler returned None
PostCutoffDays == 30   \* line 196
SearchCutoffDays == 7  \* line 197
AllowReentry == TRUE   \* line 254

Users == {"u1", "u2"}

\* user.full_name and user.username (lines 155-156); u2 has no username
FullName(u) == IF u = "u1" THEN <<"a", ",", "b">> ELSE <<"c">>
RawUsername(u) == IF u = "u1" THEN <<"x">> ELSE <<>>

\* the ChatMember statuses; RESTRICTED is the one the Bot API has beyond the
\* five the code and the design name
Statuses == {"MEMBER", "OWNER", "ADMINISTRATOR", "LEFT", "BANNED", "RESTRICTED"}
\* line 142
allowed == {"MEMBER", "OWNER", "ADMINISTRATOR"}

\* ---------------------------------------------------------------- strings
Min(S) == CHOOSE x \in S : \A y \in S : x <= y
Max(S) == CHOOSE x \in S : \A y \in S : x >= y

IsSpace(c) == c \in {" ", "\n"}

\* str.strip()
Strip(s) ==
  LET keep == {i \in 1..Len(s) : ~IsSpace(s[i])}
  IN  IF keep = {} THEN <<>> ELSE SubSeq(s, Min(keep), Max(keep))

\* str.lower()
LowerChar(c) == CASE c = "A" -> "a" [] c = "B" -> "b" [] OTHER -> c
Lower(s) == [i \in 1..Len(s) |-> LowerChar(s[i])]

\* Python's `tok in body`
Contains_CI(body, tok) ==
  \E i \in 0..(Len(body) - Len(tok)) :
      Lower(SubSeq(body, i + 1, i + Len(tok))) = Lower(tok)
Contains(body, tok) ==
  \E i \in 0..(Len(body) - Len(tok)) : SubSeq(body, i + 1, i + Len(tok)) = tok

\* s.split("/")[-1]
LastSegment(s) ==
  LET cut == {i \in 1..Len(s) : s[i] = "/"}
  IN  IF cut = {} THEN s ELSE SubSeq(s, Max(cut) + 1, Len(s))

\* ",".join(fields) of line 178, without the newline
RECURSIVE JoinComma(_)
JoinComma(fs) ==
  IF Len(fs) = 0 THEN <<>>
  ELSE IF Len(fs) = 1 THEN fs[1]
  ELSE fs[1] \o <<",">> \o JoinComma(Tail(fs))

\* strftime("%d/%m/%Y") and strftime("%I:%M:%S %p") of a day count
DigitChar(n) == CASE n = 0 -> "0" [] n = 1 -> "1" [] n = 2 -> "2" [] n = 3 -> "3"
                  [] n = 4 -> "4" [] n = 5 -> "5" [] n = 6 -> "6" [] n = 7 -> "7"
                  [] n = 8 -> "8" [] OTHER -> "9"
DateStr(now) == <<DigitChar((now \div 10) % 10), DigitChar(now % 10), "/">>
TimeStr(now) == <<"1", "2", ":", "0", "0", " ", "A", "M">>

VARIABLES
  conv,        \* ConversationHandler._conversations: user -> NoState | BATCH
  nUpd,        \* number of updates a handler was started for
  handlers,    \* the running handlers: update number -> record
  tasks,       \* one record per fetch_and_send_apply_links task, in creation order
  sent,        \* messages delivered to each chat, in order
  journal,     \* lines of data.txt
  sheetRows,   \* rows appended to the worksheet
  log,         \* logger records
  groupsFile,  \* groups.txt: [exists, lines]
  history,     \* Telegram: source username -> messages, newest first
  clock        \* current day

vars == <<conv, nUpd, handlers, tasks, sent, journal, sheetRows, log, groupsFile, history, clock>>
world == <<groupsFile, history, clock>>


\* ------------------------------------------------- conversation handlers
\* ConversationHandler.check_update for the handler built at lines 247-255:
\* entry points are tried when there is no conversation or allow_reentry is
\* set, then the handlers of the current state; there are no fallbacks.
\* kind: "start" (/start), "check" (callback data "check"), "text" (text that
\* is no command), "command" (any other command).
Route_Ungated(state, kind) ==
  IF (state = NoState \/ AllowReentry) /\ kind = "start" THEN "start_handler"
  ELSE IF (state = NoState \/ AllowReentry) /\ kind = "check" THEN "check_handler"
  ELSE IF kind = "text" THEN "batch_handler"
  ELSE "none"

Route_CommandAsText(state, kind) ==
  IF state = BATCH /\ kind \in {"text", "start", "command"} THEN "batch_handler"
  ELSE IF (state = NoState \/ AllowReentry) /\ kind = "start" THEN "start_handler"
  ELSE IF (state = NoState \/ AllowReentry) /\ kind = "check" THEN "check_handler"
  ELSE "none"

Route(state, kind) ==
  IF (state = NoState \/ AllowReentry) /\ kind = "start" THEN "start_handler"
  ELSE IF (state = NoState \/ AllowReentry) /\ kind = "check" THEN "check_handler"
  ELSE IF state = BATCH /\ kind = "text" THEN "batch_handler"
  ELSE "none"

FirstPc(handler) ==
  CASE handler = "start_handler" -> "s_reply"
    [] handler = "check_handler" -> "c_chan"
    [] handler = "batch_handler" -> "b_reply"
    [] OTHER -> "ignored"

UpdateState_NoneEnds(state, new_state) ==
  IF new_state = END THEN NoState
  ELSE IF new_state # NoState THEN new_state
  ELSE NoState

\* ConversationHandler._update_state: END removes the key, None keeps the state
UpdateState(state, new_state) ==
  IF new_state = END THEN NoState
  ELSE IF new_state # NoState THEN new_state
  ELSE state

Msg(kind, upd, task, src, idx, text) ==
  [kind |-> kind, upd |-> upd, task |-> task, src |-> src, idx |-> idx, text |-> text]

\* the handler records without handler h (its asyncio task has ended)
Without(h) == [k \in DOMAIN handlers \ {h} |-> handlers[k]]

\* An update arrives and is routed; the handler runs up to its first await.
\* An update that no handler matches is dropped and changes nothing.
Receive(u, kind, text) ==
  /\ nUpd < MaxUpdates
  /\ IF Route(conv[u], kind) = "none"
     THEN UNCHANGED <<handlers, nUpd>>
     ELSE /\ nUpd' = nUpd + 1
          /\ handlers' = [k \in DOMAIN handlers \cup {nUpd + 1} |->
                IF k = nUpd + 1
                THEN [user |-> u, kind |-> kind,
                      pc |-> FirstPc(Route(conv[u], kind)),
                      chan |-> "-", grp |-> "-", ret |-> NoState, text |-> text]
                ELSE handlers[k]]
  /\ UNCHANGED <<conv, tasks, sent, journal, sheetRows, log, world>>

ReceiveStart(u) == Receive(u, "start", <<>>)
ReceiveCheck(u) == Receive(u, "check", <<>>)
ReceiveText(u, text) == Receive(u, "text", text)
ReceiveCommand(u) == Receive(u, "command", <<>>)

\* start_handler, lines 123-134: sends the join prompt and returns None
StartHandler(h) ==
  /\ handlers[h].pc = "s_reply"
  /\ sent' = [sent EXCEPT ![handlers[h].user] = Append(@, Msg("join", h, 0, 0, 0, <<>>))]
  /\ handlers' = Without(h)
  /\ conv' = [conv EXCEPT ![handlers[h].user] = UpdateState(@, NoState)]
  /\ UNCHANGED <<nUpd, tasks, journal, sheetRows, log, world>>

\* an exception leaves the handler: the application logs it, the
\* conversation state is not written
Raise(h) ==
  /\ handlers' = Without(h)
  /\ log' = Append(log, [level |-> "error", task |-> 0, what |-> "handler", src |-> h])

\* check_handler, lines 139-140: get_chat_member of the channel returns a
\* status or raises (ok = FALSE)
CheckLookupChannel(h, ok, status) ==
  /\ handlers[h].pc = "c_chan"
  /\ IF ok
     THEN /\ handlers' = [handlers EXCEPT ![h].pc = "c_grp", ![h].chan = status]
          /\ log' = log
     ELSE Raise(h)
  /\ UNCHANGED <<nUpd, conv, tasks, sent, journal, sheetRows, world>>

\* check_handler, line 141: get_chat_member of the group
CheckLookupGroup(h, ok, status) ==
  /\ handlers[h].pc = "c_grp"
  /\ IF ok
     THEN /\ handlers' = [handlers EXCEPT ![h].pc = "c_reply", ![h].grp = status]
          /\ log' = log
     ELSE Raise(h)
  /\ UNCHANGED <<nUpd, conv, tasks, sent, journal, sheetRows, world>>

Permitted_Either(chan, grp) == chan \in allowed \/ grp \in allowed

\* line 144
Permitted(chan, grp) == chan \in allowed /\ grp \in allowed

\* check_handler, lines 142-149: the reply and the value to return
CheckReply(h) ==
  /\ handlers[h].pc = "c_reply"
  /\ LET ok == Permitted(handlers[h].chan, handlers[h].grp)
     IN  /\ sent' = [sent EXCEPT ![handlers[h].user] =
                 Append(@, Msg(IF ok THEN "prompt" ELSE "reject", h, 0, 0, 0, <<>>))]
         /\ handlers' = [handlers EXCEPT ![h].pc = "c_return",
                                         ![h].ret = IF ok THEN BATCH ELSE END]
  /\ UNCHANGED <<nUpd, conv, tasks, journal, sheetRows, log, world>>

CheckReturn_Once(h) ==
  /\ handlers[h].pc = "c_return"
  /\ conv' = [conv EXCEPT ![handlers[h].user] =
                 IF @ = BATCH THEN @ ELSE UpdateState(@, handlers[h].ret)]
  /\ handlers' = Without(h)
  /\ UNCHANGED <<nUpd, tasks, sent, journal, sheetRows, log, world>>

\* check_handler returns; the ConversationHandler stores the new state
CheckReturn(h) ==
  /\ handlers[h].pc = "c_return"
  /\ conv' = [conv EXCEPT ![handlers[h].user] = UpdateState(@, handlers[h].ret)]
  /\ handlers' = Without(h)
  /\ UNCHANGED <<nUpd, tasks, sent, journal, sheetRows, log, world>>

BatchReply_Silent(h) ==
  /\ handlers[h].pc = "b_reply"
  /\ handlers' = [handlers EXCEPT ![h].pc = "b_dispatch"]
  /\ UNCHANGED <<nUpd, conv, tasks, sent, journal, sheetRows, log, world>>

\* batch_handler, lines 152-160: the acknowledgement
BatchReply(h) ==
  /\ handlers[h].pc = "b_reply"
  /\ sent' = [sent EXCEPT ![handlers[h].user] = Append(@, Msg("ack", h, 0, 0, 0, <<>>))]
  /\ handlers' = [handlers EXCEPT ![h].pc = "b_dispatch"]
  /\ UNCHANGED <<nUpd, conv, tasks, journal, sheetRows, log, world>>

\* the coroutine object of line 163, before its first step
NewTask(h, chat, full_name, username, batch) ==
  [chat |-> chat, upd |-> h, full_name |-> full_name, username |-> username,
   batch |-> batch, pc |-> "journal", date_str |-> <<>>, time_str |-> <<>>,
   post_cutoff |-> 0, search_cutoff |-> 0, found_any |-> FALSE,
   group_usernames |-> <<>>, gi |-> 0, it |-> <<>>]

BatchDispatch_Cancels(h) ==
  /\ handlers[h].pc = "b_dispatch"
  /\ LET u == handlers[h].user
         others == [t \in DOMAIN tasks |->
                      IF tasks[t].chat = u /\ tasks[t].pc # "done"
                      THEN [tasks[t] EXCEPT !.pc = "crashed"] ELSE tasks[t]]
     IN  /\ tasks' = Append(others,
                 NewTask(h, u, FullName(u), RawUsername(u), Strip(handlers[h].text)))
         /\ conv' = [conv EXCEPT ![u] = UpdateState(@, END)]
  /\ handlers' = Without(h)
  /\ UNCHANGED <<nUpd, sent, journal, sheetRows, log, world>>

\* batch_handler, lines 162-167: create_task and return END
BatchDispatch(h) ==
  /\ handlers[h].pc = "b_dispatch"
  /\ LET u == handlers[h].user
     IN  /\ tasks' = Append(tasks,
                 NewTask(h, u, FullName(u), RawUsername(u), Strip(handlers[h].text)))
         /\ conv' = [conv EXCEPT ![u] = UpdateState(@, END)]
  /\ handlers' = Without(h)
  /\ UNCHANGED <<nUpd, sent, journal, sheetRows, log, world>>

\* ------------------------------------------- fetch_and_send_apply_links
LogRec(level, task, what, src) == [level |-> level, task |-> task, what |-> what, src |-> src]

SetTask(t, rec) == tasks' = [tasks EXCEPT ![t] = rec]

TaskJournal_Abort(t, ok) ==
  /\ tasks[t].pc = "journal"
  /\ LET T == tasks[t]
         date_str == DateStr(clock)
         time_str == TimeStr(clock)
     IN  /\ IF ok
            THEN /\ journal' = Append(journal,
                        JoinComma(<<T.full_name, T.username, T.batch, date_str, time_str>>))
                 /\ log' = log
                 /\ SetTask(t, [T EXCEPT !.pc = "sheet", !.date_str = date_str,
                                         !.time_str = time_str])
            ELSE /\ log' = Append(log, LogRec("error", t, "data.txt", 0))
                 /\ journal' = journal
                 /\ SetTask(t, [T EXCEPT !.pc = "crashed"])
  /\ UNCHANGED <<conv, nUpd, handlers, sent, sheetRows, world>>

\* lines 170-182: the timestamp strings and the append to data.txt; a failed
\* write (ok = FALSE) is logged
TaskJournal(t, ok) ==
  /\ tasks[t].pc = "journal"
  /\ LET T == tasks[t]
         date_str == DateStr(clock)
         time_str == TimeStr(clock)
     IN  /\ IF ok
            THEN /\ journal' = Append(journal,
                        JoinComma(<<T.full_name, T.username, T.batch, date_str, time_str>>))
                 /\ log' = log
            ELSE /\ log' = Append(log, LogRec("error", t, "data.txt", 0))
                 /\ journal' = journal
         /\ SetTask(t, [T EXCEPT !.pc = "sheet", !.date_str = date_str, !.time_str = time_str])
  /\ UNCHANGED <<conv, nUpd, handlers, sent, sheetRows, world>>

\* lines 185-192: sheet.append_row; a failure is logged
TaskSheet(t, ok) ==
  /\ tasks[t].pc = "sheet"
  /\ LET T == tasks[t]
     IN  /\ IF ok
            THEN /\ sheetRows' = Append(sheetRows,
                        <<T.full_name, T.username, T.batch, T.date_str, T.time_str>>)
                 /\ log' = log
            ELSE /\ log' = Append(log, LogRec("error", t, "sheet", 0))
                 /\ sheetRows' = sheetRows
         /\ SetTask(t, [T EXCEPT !.pc = "read"])
  /\ UNCHANGED <<conv, nUpd, handlers, sent, journal, world>>

ParseGroups_KeepBlank(lines) ==
  [i \in 1..Len(lines) |-> LastSegment(Strip(lines[i]))]

\* line 202: the usernames of the non-blank lines of groups.txt
ParseGroups(lines) ==
  LET kept == SelectSeq(lines, LAMBDA ln : Strip(ln) # <<>>)
  IN  [i \in 1..Len(kept) |-> LastSegment(Strip(kept[i]))]

\* where the loop of line 206 continues after source gi
AfterSource(T) ==
  IF T.gi < Len(T.group_usernames)
  THEN [T EXCEPT !.gi = T.gi + 1, !.pc = "resolve", !.it = <<>>]
  ELSE [T EXCEPT !.gi = T.gi + 1, !.pc = "final", !.it = <<>>]

\* lines 195-204: the cutoffs and the source list (a missing file is an empty list)
TaskReadGroups(t) ==
  /\ tasks[t].pc = "read"
  /\ LET T == tasks[t]
         now_utc == clock
         names == IF groupsFile.exists THEN ParseGroups(groupsFile.lines) ELSE <<>>
     IN  SetTask(t, AfterSource([T EXCEPT !.post_cutoff = now_utc - PostCutoffDays,
                                          !.search_cutoff = now_utc - SearchCutoffDays,
                                          !.found_any = FALSE,
                                          !.group_usernames = names,
                                          !.gi = 0]))
  /\ UNCHANGED <<conv, nUpd, handlers, sent, journal, sheetRows, log, world>>

\* line 213: tele_client.iter_messages(entity, offset_date=d) yields, newest
\* first, the messages posted before d (the offset date is exclusive); the
\* result is the sequence of their positions in the history
IterMessages(msgs, offset_date) ==
  SelectSeq([i \in 1..Len(msgs) |-> i], LAMBDA i : msgs[i].date < offset_date)

TaskResolve_Abort(t, ok) ==
  /\ tasks[t].pc = "resolve"
  /\ LET T == tasks[t]
         name == T.group_usernames[T.gi]
     IN  /\ ok => name \in DOMAIN history
         /\ IF ok
            THEN /\ SetTask(t, [T EXCEPT !.pc = "iter",
                                         !.it = IterMessages(history[name], T.search_cutoff)])
                 /\ log' = log
            ELSE /\ SetTask(t, [T EXCEPT !.pc = "final"])
                 /\ log' = Append(log, LogRec("warning", t, "entity", T.gi))
  /\ UNCHANGED <<conv, nUpd, handlers, sent, journal, sheetRows, world>>

\* lines 207-211: get_entity; a failure (ok = FALSE) is logged as a warning
\* and the loop continues.  A username Telegram does not know never resolves.
TaskResolve(t, ok) ==
  /\ tasks[t].pc = "resolve"
  /\ LET T == tasks[t]
         name == T.group_usernames[T.gi]
     IN  /\ ok => name \in DOMAIN history
         /\ IF ok
            THEN /\ SetTask(t, [T EXCEPT !.pc = "iter",
                                         !.it = IterMessages(history[name], T.search_cutoff)])
                 /\ log' = log
            ELSE /\ SetTask(t, AfterSource(T))
                 /\ log' = Append(log, LogRec("warning", t, "entity", T.gi))
  /\ UNCHANGED <<conv, nUpd, handlers, sent, journal, sheetRows, world>>

Qualifies_AnyCase(msg, batch, post_cutoff) ==
  /\ msg.hasText /\ msg.text # <<>>
  /\ Contains_CI(msg.text, batch)
  /\ ~(msg.date < post_cutoff)

\* lines 214-218: the filter applied to one message
Qualifies(msg, batch, post_cutoff) ==
  /\ msg.hasText /\ msg.text # <<>>
  /\ Contains(msg.text, batch)
  /\ ~(msg.date < post_cutoff)

TaskMessage_Last(t) ==
  /\ tasks[t].pc = "iter"
  /\ tasks[t].it # <<>>
  /\ LET T == tasks[t]
         k == T.it[Len(T.it)]
         rest == SubSeq(T.it, 1, Len(T.it) - 1)
         msg == history[T.group_usernames[T.gi]][k]
     IN  IF Qualifies(msg, T.batch, T.post_cutoff)
         THEN /\ sent' = [sent EXCEPT ![T.chat] =
                      Append(@, Msg("match", T.upd, t, T.gi, k, msg.text))]
              /\ SetTask(t, [T EXCEPT !.it = rest, !.found_any = TRUE])
         ELSE /\ sent' = sent
              /\ SetTask(t, [T EXCEPT !.it = rest])
  /\ UNCHANGED <<conv, nUpd, handlers, journal, sheetRows, log, world>>

\* lines 213-224: the iterator yields its next message; a qualifying one is sent
TaskMessage(t) ==
  /\ tasks[t].pc = "iter"
  /\ tasks[t].it # <<>>
  /\ LET T == tasks[t]
         k == Head(T.it)
         msg == history[T.group_usernames[T.gi]][k]
     IN  IF Qualifies(msg, T.batch, T.post_cutoff)
         THEN /\ sent' = [sent EXCEPT ![T.chat] =
                      Append(@, Msg("match", T.upd, t, T.gi, k, msg.text))]
              /\ SetTask(t, [T EXCEPT !.it = Tail(T.it), !.found_any = TRUE])
         ELSE /\ sent' = sent
              /\ SetTask(t, [T EXCEPT !.it = Tail(T.it)])
  /\ UNCHANGED <<conv, nUpd, handlers, journal, sheetRows, log, world>>

\* line 213: the iterator is exhausted; the loop of line 206 goes on
TaskIterEnd(t) ==
  /\ tasks[t].pc = "iter"
  /\ tasks[t].it = <<>>
  /\ SetTask(t, AfterSource(tasks[t]))
  /\ UNCHANGED <<conv, nUpd, handlers, sent, journal, sheetRows, log, world>>

\* line 213: a fetch of the iterator raises; nothing catches it, the task ends
TaskIterFail(t) ==
  /\ tasks[t].pc = "iter"
  /\ SetTask(t, [tasks[t] EXCEPT !.pc = "crashed"])
  /\ UNCHANGED <<conv, nUpd, handlers, sent, journal, sheetRows, log, world>>

TaskFinal_Always(t) ==
  /\ tasks[t].pc = "final"
  /\ LET T == tasks[t]
     IN  /\ sent' = [sent EXCEPT ![T.chat] =
                            Append(@, Msg("notfound", T.upd, t, 0, 0, T.batch))]
         /\ SetTask(t, [T EXCEPT !.pc = "done"])
  /\ UNCHANGED <<conv, nUpd, handlers, journal, sheetRows, log, world>>

TaskFinal_SharedFlag(t) ==
  /\ tasks[t].pc = "final"
  /\ LET T == tasks[t]
     IN  /\ sent' = IF ~(\E o \in DOMAIN tasks : tasks[o].found_any)
                    THEN [sent EXCEPT ![T.chat] =
                            Append(@, Msg("notfound", T.upd, t, 0, 0, T.batch))]
                    ELSE sent
         /\ SetTask(t, [T EXCEPT !.pc = "done"])
  /\ UNCHANGED <<conv, nUpd, handlers, journal, sheetRows, log, world>>

\* lines 226-231: the not-found notice
TaskFinal(t) ==
  /\ tasks[t].pc = "final"
  /\ LET T == tasks[t]
     IN  /\ sent' = IF ~T.found_any
                    THEN [sent EXCEPT ![T.chat] =
                            Append(@, Msg("notfound", T.upd, t, 0, 0, T.batch))]
                    ELSE sent
         /\ SetTask(t, [T EXCEPT !.pc = "done"])
  /\ UNCHANGED <<conv, nUpd, handlers, journal, sheetRows, log, world>>

\* ------------------------------------------------------------ the world
\* a message of a source: msg.text (absent for media without caption) and
\* msg.date, which Telethon always gives as an aware UTC time
Message(hasText, text, age) == [hasText |-> hasText, text |-> text, date |-> Today - age]

LineA == <<"t", "/", "A", " ">>
LineB == <<"B">>
LineBlank == <<" ">>
LineNobody == <<"C", "/">>

\* groups.txt with one source; A holds a post of 5 and one of 10 days ago
SmallFile == [exists |-> TRUE, lines |-> <<LineA>>]
SmallHistory ==
  [n \in {<<"A">>} |-> <<Message(TRUE, <<"x", "a">>, 5), Message(TRUE, <<"a">>, 10)>>]

\* the texts a user sends
TextInputs == {<<" ", "a">>, <<" ">>}
\* the statuses get_chat_member returns in Spec
SomeStatuses == {"MEMBER", "LEFT"}
\* the users who write to the bot in Spec
Speakers == {"u1"}

Init ==
  /\ conv = [u \in Users |-> NoState]
  /\ nUpd = 0
  /\ handlers = <<>>
  /\ tasks = <<>>
  /\ sent = [u \in Users |-> <<>>]
  /\ journal = <<>>
  /\ sheetRows = <<>>
  /\ log = <<>>
  /\ groupsFile = SmallFile
  /\ history = SmallHistory
  /\ clock = Today

Hs == DOMAIN handlers
Ts == DOMAIN tasks

\* The whole bot: one user, one text, two statuses, a small world; the writes
\* to data.txt and to the sheet succeed.
Next ==
  \/ \E u \in Speakers : ReceiveStart(u)
  \/ \E u \in Speakers : ReceiveCheck(u)
  \/ \E u \in Speakers : ReceiveText(u, <<" ", "a">>)
  \/ \E u \in Speakers : ReceiveCommand(u)
  \/ \E h \in Hs : StartHandler(h)
  \/ \E h \in Hs, ok \in BOOLEAN, s \in SomeStatuses : CheckLookupChannel(h, ok, s)
  \/ \E h \in Hs, ok \in BOOLEAN, s \in SomeStatuses : CheckLookupGroup(h, ok, s)
  \/ \E h \in Hs : CheckReply(h)
  \/ \E h \in Hs : CheckReturn(h)
  \/ \E h \in Hs : BatchReply(h)
  \/ \E h \in Hs : BatchDispatch(h)
  \/ \E t \in Ts : TaskJournal(t, TRUE)
  \/ \E t \in Ts : TaskSheet(t, TRUE)
  \/ \E t \in Ts : TaskReadGroups(t)
  \/ \E t \in Ts, ok \in BOOLEAN : TaskResolve(t, ok)
  \/ \E t \in Ts : TaskMessage(t)
  \/ \E t \in Ts : TaskIterEnd(t)
  \/ \E t \in Ts : TaskIterFail(t)
  \/ \E t \in Ts : TaskFinal(t)

Spec == Init /\ [][Next]_vars

\* The conversation alone, with every text; the dispatched searches do not run.
NextConv ==
  \/ \E u \in Speakers : ReceiveStart(u)
  \/ \E u \in Speakers : ReceiveCheck(u)
  \/ \E u \in Speakers, x \in TextInputs : ReceiveText(u, x)
  \/ \E u \in Speakers : ReceiveCommand(u)
  \/ \E h \in Hs : StartHandler(h)
  \/ \E h \in Hs, ok \in BOOLEAN, s \in SomeStatuses : CheckLookupChannel(h, ok, s)
  \/ \E h \in Hs, ok \in BOOLEAN, s \in SomeStatuses : CheckLookupGroup(h, ok, s)
  \/ \E h \in Hs : CheckReply(h)
  \/ \E h \in Hs : CheckReturn(h)
  \/ \E h \in Hs : BatchReply(h)
  \/ \E h \in Hs : BatchDispatch(h)

SpecConv == Init /\ [][NextConv]_vars

\* One check update of user u1, routed either with no conversation or while
\* the token is awaited (after an earlier check that passed), processed with
\* every status the two lookups can return.
InitCheck ==
  /\ \E again \in BOOLEAN :
       /\ conv = [u \in Users |-> IF again /\ u = "u1" THEN BATCH ELSE NoState]
       /\ nUpd = IF again THEN 2 ELSE 1
       /\ handlers = [k \in {nUpd} |->
                        [user |-> "u1", kind |-> "check", pc |-> "c_chan",
                         chan |-> "-", grp |-> "-", ret |-> NoState, text |-> <<>>]]
       /\ sent = [u \in Users |-> IF again /\ u = "u1"
                                  THEN <<Msg("prompt", 1, 0, 0, 0, <<>>)>> ELSE <<>>]
  /\ tasks = <<>>
  /\ journal = <<>>
  /\ sheetRows = <<>>
  /\ log = <<>>
  /\ groupsFile = SmallFile
  /\ history = SmallHistory
  /\ clock = Today

NextCheck ==
  \/ \E h \in Hs, ok \in BOOLEAN, s \in Statuses : CheckLookupChannel(h, ok, s)
  \/ \E h \in Hs, ok \in BOOLEAN, s \in Statuses : CheckLookupGroup(h, ok, s)
  \/ \E h \in Hs : CheckReply(h)
  \/ \E h \in Hs : CheckReturn(h)

SpecCheck == InitCheck /\ [][NextCheck]_vars

\* One search, dispatched by the conversation check / text of user u1, over
\* every world of the bounded sets below.
Bodies == { [hasText |-> FALSE, text |-> <<>>], [hasText |-> TRUE, text |-> <<>>],
            [hasText |-> TRUE, text |-> <<"a">>], [hasText |-> TRUE, text |-> <<"A">>],
            [hasText |-> TRUE, text |-> <<"x", "a", "A">>] }
Ages == {5, SearchCutoffDays, SearchCutoffDays + 1, PostCutoffDays, PostCutoffDays + 1}
Messages == { Message(b.hasText, b.text, a) : b \in Bodies, a \in Ages }

\* the histories of at most n messages, newest first
RECURSIVE Histories(_)
Histories(n) ==
  IF n = 0 THEN { <<>> }
  ELSE LET shorter == Histories(n - 1)
           full == { x \in shorter : Len(x) = n - 1 }
       IN  shorter \cup
           { <<p[1]>> \o p[2] :
               p \in { q \in Messages \X full :
                          q[2] # <<>> => q[2][1].date <= q[1].date } }

HistoryB == <<Message(TRUE, <<"a">>, 9), Message(TRUE, <<"A">>, 20), Message(TRUE, <<"a">>, 40)>>

Files == { [exists |-> FALSE, lines |-> <<>>] } \cup
         { [exists |-> TRUE, lines |-> ls] :
             ls \in { <<>>, <<LineBlank>>, <<LineA>>, <<LineA, LineB>>,
                      <<LineB, LineBlank, LineA>>, <<LineNobody, LineA>> } }

SearchTexts == {<<" ", "a">>, <<"A", " ">>, <<" ">>}

InitSearch ==
  /\ conv = [u \in Users |-> NoState]
  /\ nUpd = 2
  /\ handlers = <<>>
  /\ \E x \in SearchTexts :
       tasks = <<NewTask(2, "u1", FullName("u1"), RawUsername("u1"), Strip(x))>>
  /\ sent = [u \in Users |-> IF u = "u1"
                             THEN <<Msg("prompt", 1, 0, 0, 0, <<>>), Msg("ack", 2, 0, 0, 0, <<>>)>>
                             ELSE <<>>]
  /\ journal = <<>>
  /\ sheetRows = <<>>
  /\ log = <<>>
  /\ groupsFile \in Files
  /\ \E hA \in Histories(MaxMsgs) :
       history = [n \in {<<"A">>, <<"B">>} |-> IF n = <<"A">> THEN hA ELSE HistoryB]
  /\ clock = Today

NextSearch ==
  \/ \E t \in Ts, ok \in BOOLEAN : TaskJournal(t, ok)
  \/ \E t \in Ts, ok \in BOOLEAN : TaskSheet(t, ok)
  \/ \E t \in Ts : TaskReadGroups(t)
  \/ \E t \in Ts, ok \in BOOLEAN : TaskResolve(t, ok)
  \/ \E t \in Ts : TaskMessage(t)
  \/ \E t \in Ts : TaskIterEnd(t)
  \/ \E t \in Ts : TaskIterFail(t)
  \/ \E t \in Ts : TaskFinal(t)

SpecSearch == InitSearch /\ [][NextSearch]_vars

\* Two sources with several posts that qualify for the same token, for the
\* order of the matches: A and B are listed in either order, with and without
\* a name between them that does not resolve.
HistoryA == <<Message(TRUE, <<"a">>, 8), Message(TRUE, <<"x", "a">>, 9),
              Message(TRUE, <<"A">>, 10), Message(TRUE, <<"a">>, 12)>>
HistoryB2 == <<Message(TRUE, <<"a">>, 9), Message(FALSE, <<>>, 11),
               Message(TRUE, <<"a", "A">>, 20), Message(TRUE, <<"a">>, 40)>>
OrderFiles == { [exists |-> TRUE, lines |-> ls] :
                  ls \in { <<LineA, LineB>>, <<LineB, LineA>>, <<LineA, LineNobody, LineB>> } }

InitOrder ==
  /\ conv = [u \in Users |-> NoState]
  /\ nUpd = 2
  /\ handlers = <<>>
  /\ \E x \in {<<" ", "a">>, <<"A", " ">>} :
       tasks = <<NewTask(2, "u1", FullName("u1"), RawUsername("u1"), Strip(x))>>
  /\ sent = [u \in Users |-> IF u = "u1"
                             THEN <<Msg("prompt", 1, 0, 0, 0, <<>>), Msg("ack", 2, 0, 0, 0, <<>>)>>
                             ELSE <<>>]
  /\ journal = <<>>
  /\ sheetRows = <<>>
  /\ log = <<>>
  /\ groupsFile \in OrderFiles
  /\ history = [n \in {<<"A">>, <<"B">>} |-> IF n = <<"A">> THEN HistoryA ELSE HistoryB2]
  /\ clock = Today

SpecOrder == InitOrder /\ [][NextSearch]_vars

\* Two searches that run at the same time, dispatched for two chats or twice
\* for one chat, with tokens of which one is in no post.
PairHistory ==
  [n \in {<<"A">>, <<"B">>} |->
     IF n = <<"A">> THEN <<Message(TRUE, <<"a">>, 8), Message(TRUE, <<"A">>, 10)>>
     ELSE <<Message(TRUE, <<"x", "a">>, 9)>>]
PairTexts == { <<" ", "a">>, <<"A", " ">>, <<"b">> }

InitPair ==
  /\ conv = [u \in Users |-> NoState]
  /\ \E c \in Users, x, y \in PairTexts :
       /\ x # y
       /\ nUpd = 4
       /\ tasks = <<NewTask(2, "u1", FullName("u1"), RawUsername("u1"), Strip(x)),
                    NewTask(4, c, FullName(c), RawUsername(c), Strip(y))>>
       /\ sent = [u \in Users |->
                    (IF u = "u1"
                     THEN <<Msg("prompt", 1, 0, 0, 0, <<>>), Msg("ack", 2, 0, 0, 0, <<>>)>>
                     ELSE <<>>)
                    \o (IF u = c
                        THEN <<Msg("prompt", 3, 0, 0, 0, <<>>), Msg("ack", 4, 0, 0, 0, <<>>)>>
                        ELSE <<>>)]
  /\ handlers = <<>>
  /\ journal = <<>>
  /\ sheetRows = <<>>
  /\ log = <<>>
  /\ groupsFile = [exists |-> TRUE, lines |-> <<LineA, LineB>>]
  /\ history = PairHistory
  /\ clock = Today

NextPair ==
  \/ \E t \in Ts : TaskJournal(t, TRUE)
  \/ \E t \in Ts : TaskSheet(t, TRUE)
  \/ \E t \in Ts : TaskReadGroups(t)
  \/ \E t \in Ts, ok \in BOOLEAN : TaskResolve(t, ok)
  \/ \E t \in Ts : TaskMessage(t)
  \/ \E t \in Ts : TaskIterEnd(t)
  \/ \E t \in Ts : TaskIterFail(t)
  \/ \E t \in Ts : TaskFinal(t)

SpecPair == InitPair /\ [][NextPair]_vars

\* The bot from the moment a token has arrived for a conversation that awaits
\* it, with one more event of the user afterwards; every call of the search
\* returns (get_entity with a result or an error), and the event loop runs a
\* task that is ready.  The token is update number TokenUpd and the check that
\* passed is the one before it; the updates before that were checks whose
\* first lookup raised, which left an error in the log and nothing else.
TokenUpd == MaxUpdates - 1
InitLive ==
  /\ conv = [u \in Users |-> IF u = "u1" THEN BATCH ELSE NoState]
  /\ nUpd = TokenUpd
  /\ handlers = [k \in {TokenUpd} |->
                   [user |-> "u1", kind |-> "text", pc |-> "b_reply",
                    chan |-> "-", grp |-> "-", ret |-> NoState, text |-> <<" ", "a">>]]
  /\ tasks = <<>>
  /\ sent = [u \in Users |-> IF u = "u1" THEN <<Msg("prompt", TokenUpd - 1, 0, 0, 0, <<>>)>>
                                         ELSE <<>>]
  /\ journal = <<>>
  /\ sheetRows = <<>>
  /\ log = [k \in 1..(TokenUpd - 2) |-> LogRec("error", 0, "handler", k)]
  /\ groupsFile = SmallFile
  /\ history = SmallHistory
  /\ clock = Today

\* the steps of the search tasks when every call returns
TaskSteps ==
  \/ \E t \in Ts : TaskJournal(t, TRUE)
  \/ \E t \in Ts : TaskSheet(t, TRUE)
  \/ \E t \in Ts : TaskReadGroups(t)
  \/ \E t \in Ts, ok \in BOOLEAN : TaskResolve(t, ok)
  \/ \E t \in Ts : TaskMessage(t)
  \/ \E t \in Ts : TaskIterEnd(t)
  \/ \E t \in Ts : TaskFinal(t)

NextLive ==
  \/ \E u \in Speakers : ReceiveStart(u)
  \/ \E u \in Speakers : ReceiveCheck(u)
  \/ \E u \in Speakers : ReceiveText(u, <<" ", "a">>)
  \/ \E u \in Speakers : ReceiveCommand(u)
  \/ \E h \in Hs : StartHandler(h)
  \/ \E h \in Hs, ok \in BOOLEAN, s \in SomeStatuses : CheckLookupChannel(h, ok, s)
  \/ \E h \in Hs, ok \in BOOLEAN, s \in SomeStatuses : CheckLookupGroup(h, ok, s)
  \/ \E h \in Hs : CheckReply(h)
  \/ \E h \in Hs : CheckReturn(h)
  \/ \E h \in Hs : BatchReply(h)
  \/ \E h \in Hs : BatchDispatch(h)
  \/ TaskSteps

SpecLive == InitLive /\ [][NextLive]_vars /\ WF_vars(TaskSteps)

\* One search for every record of the bounded sets below: names and tokens
\* are the non-empty strings of at most MaxField characters over a letter and
\* the comma, the username is absent or present.
MaxField == 2
RECURSIVE Strings(_)
Strings(n) ==
  IF n = 0 THEN { <<>> }
  ELSE Strings(n - 1) \cup
       { <<c>> \o s : c \in {"a", ","}, s \in { x \in Strings(n - 1) : Len(x) = n - 1 } }
FieldValues == Strings(MaxField) \ { <<>> }

InitRecord ==
  /\ conv = [u \in Users |-> NoState]
  /\ nUpd = 2
  /\ handlers = <<>>
  /\ \E name \in FieldValues, username \in {<<>>, <<"x">>}, text \in FieldValues :
       tasks = <<NewTask(2, "u1", name, username, Strip(text))>>
  /\ sent = [u \in Users |-> IF u = "u1"
                             THEN <<Msg("prompt", 1, 0, 0, 0, <<>>), Msg("ack", 2, 0, 0, 0, <<>>)>>
                             ELSE <<>>]
  /\ journal = <<>>
  /\ sheetRows = <<>>
  /\ log = <<>>
  /\ groupsFile = SmallFile
  /\ history = SmallHistory
  /\ clock = Today

SpecRecord == InitRecord /\ [][NextSearch]_vars

\* what a reader of data.txt gets from a line: the fields between the commas
RECURSIVE SplitComma(_)
SplitComma(line) ==
  LET cut == {i \in 1..Len(line) : line[i] = ","}
  IN  IF cut = {} THEN <<line>>
      ELSE <<SubSeq(line, 1, Min(cut) - 1)>> \o SplitComma(SubSeq(line, Min(cut) + 1, Len(line)))


\* ================================================================ claims
\* the messages that update h's handler has sent to chat u, and those of kind k
SentBy(u, h) == {i \in DOMAIN sent[u] : sent[u][i].upd = h /\ sent[u][i].task = 0}
SentKind(u, h, k) == {i \in SentBy(u, h) : sent[u][i].kind = k}
Finished(h) == h \in DOMAIN handlers /\ h \notin DOMAIN handlers'
Started(h) == h \notin DOMAIN handlers /\ h \in DOMAIN handlers'

\* every dispatched search follows a token prompt and the acknowledgement of
\* its token in its chat
C1_StateGate ==
  \A t \in Ts :
     LET c == tasks[t].chat
     IN  \E i, j \in DOMAIN sent[c] :
            /\ i < j
            /\ sent[c][i].kind = "prompt"
            /\ sent[c][j].kind = "ack" /\ sent[c][j].upd = tasks[t].upd
\* the steps that start a token capture, create a search task, move a
\* conversation to awaiting-token, or return from a denied check
C1_StepGate ==
  /\ \A h \in DOMAIN handlers' :
        (Started(h) /\ handlers'[h].kind = "text") => conv[handlers'[h].user] = BATCH
  /\ Len(tasks') > Len(tasks) =>
        \E h \in DOMAIN handlers :
           /\ Finished(h) /\ handlers[h].kind = "text"
           /\ tasks' = Append(tasks, tasks'[Len(tasks')])
           /\ tasks'[Len(tasks')].upd = h
           /\ tasks'[Len(tasks')].chat = handlers[h].user
  /\ \A u \in Users :
        (conv[u] # BATCH /\ conv'[u] = BATCH) =>
           \E h \in DOMAIN handlers :
              /\ Finished(h) /\ handlers[h].kind = "check" /\ handlers[h].user = u
              /\ handlers[h].chan \in {"MEMBER", "OWNER", "ADMINISTRATOR"}
              /\ handlers[h].grp \in {"MEMBER", "OWNER", "ADMINISTRATOR"}
  /\ \A h \in DOMAIN handlers :
        (Finished(h) /\ handlers[h].pc = "c_return"
           /\ ~(handlers[h].chan \in {"MEMBER", "OWNER", "ADMINISTRATOR"}
                /\ handlers[h].grp \in {"MEMBER", "OWNER", "ADMINISTRATOR"}))
        => conv'[handlers[h].user] = NoState
C2_Step ==
  \A h \in DOMAIN handlers :
     LET H == handlers[h]
         both == /\ H.chan \in {"MEMBER", "OWNER", "ADMINISTRATOR"}
                 /\ H.grp \in {"MEMBER", "OWNER", "ADMINISTRATOR"}
     IN  /\ (H.pc = "c_reply" /\ h \in DOMAIN handlers' /\ handlers'[h].pc # "c_reply") =>
               /\ H.chan \in Statuses /\ H.grp \in Statuses
               /\ sent'[H.user] = Append(sent[H.user],
                     Msg(IF both THEN "prompt" ELSE "reject", h, 0, 0, 0, <<>>))
         /\ (H.pc = "c_return" /\ Finished(h)) =>
               /\ Cardinality(SentBy(H.user, h)) = 1
               /\ Cardinality(SentKind(H.user, h, "prompt")) = (IF both THEN 1 ELSE 0)
               /\ Cardinality(SentKind(H.user, h, "reject")) = (IF both THEN 0 ELSE 1)
               /\ conv'[H.user] = IF both THEN BATCH ELSE NoState
\* C2: for every pair of statuses the check sends the token prompt and moves
\* the conversation to awaiting-token iff both statuses are in {MEMBER, OWNER,
\* ADMINISTRATOR}; otherwise it sends the rejection and leaves no conversation.
C2_Decision == [][C2_Step]_vars
\* one status allowed, the other not: the rejection was sent
C2_Witness ==
  \E h \in DOMAIN handlers :
     /\ handlers[h].pc = "c_return"
     /\ handlers[h].chan = "OWNER" /\ handlers[h].grp = "LEFT"
     /\ conv[handlers[h].user] = BATCH
     /\ \E i \in DOMAIN sent[handlers[h].user] :
           sent[handlers[h].user][i].kind = "reject" /\ sent[handlers[h].user][i].upd = h

\* C6: a membership lookup that fails has the outcome of a denial: the user
\* receives the rejection message and the conversation is not awaiting the token.
C6_LookupFailureDenies ==
  \A k \in DOMAIN log :
     log[k].what = "handler" =>
        \E u \in Users :
           /\ \E i \in DOMAIN sent[u] : sent[u][i].kind = "reject" /\ sent[u][i].upd = log[k].src
           /\ conv[u] # BATCH

\* C7: every dispatched search carries a non-empty trimmed token (a text that
\* is empty after trimming dispatches nothing).
C7_TokenNonEmpty == \A t \in Ts : tasks[t].batch # <<>>

\* every message of a search follows the acknowledgement of its capture, and
\* the handler of the capture has ended once the search task exists
C8_State ==
  /\ \A u \in Users : \A i \in DOMAIN sent[u] :
        sent[u][i].task # 0 =>
           \E j \in 1..(i - 1) : sent[u][j].kind = "ack" /\ sent[u][j].upd = sent[u][i].upd
  /\ \A t \in Ts : tasks[t].upd \notin DOMAIN handlers
\* the step that creates a search task
C8_Step ==
  Len(tasks') > Len(tasks) =>
     /\ tasks'[Len(tasks')].pc = "journal"
     /\ conv'[tasks'[Len(tasks')].chat] = NoState
     /\ sent' = sent
\* C8: every message of a search is preceded in its chat by the
\* acknowledgement of the token capture that dispatched it, and the capture
\* ends the conversation and its handler when it creates the search task,
\* before the search has taken a step.
C8_AckBeforeSearch == [](C8_State) /\ [][C8_Step]_vars
\* the conversation has ended while its search is still running and has
\* already sent a match after the acknowledgement
C8_Witness ==
  \E t \in Ts :
     /\ tasks[t].pc = "iter"
     /\ conv[tasks[t].chat] = NoState
     /\ \E i \in DOMAIN sent[tasks[t].chat] : sent[tasks[t].chat][i].task = t


\* ---- the search
\* task t has sent message k of its source number i as a match
MatchSent(t, i, k) ==
  \E j \in DOMAIN sent[tasks[t].chat] :
     LET m == sent[tasks[t].chat][j]
     IN  m.kind = "match" /\ m.task = t /\ m.src = i /\ m.idx = k
\* the warnings logged by task t for its source number i
Warnings(t, i) ==
  {k \in DOMAIN log : log[k].level = "warning" /\ log[k].task = t /\ log[k].src = i}
SourceHistory(t, i) ==
  IF tasks[t].group_usernames[i] \in DOMAIN history
  THEN history[tasks[t].group_usernames[i]] ELSE <<>>
HasBody(m) == m.hasText /\ m.text # <<>>
\* the source iterator yields the message and it is inside the 30-day window
Examined(m) == m.date < clock - 7 /\ m.date >= clock - 30
NotFoundCount(t) ==
  Cardinality({j \in DOMAIN sent[tasks[t].chat] :
                 sent[tasks[t].chat][j].kind = "notfound" /\ sent[tasks[t].chat][j].task = t})
MatchCount(t) ==
  Cardinality({j \in DOMAIN sent[tasks[t].chat] :
                 sent[tasks[t].chat][j].kind = "match" /\ sent[tasks[t].chat][j].task = t})

\* C3: when a search has completed, a message with a non-empty body that
\* contains the token, in a source that resolved, has been sent as a match iff
\* it was posted not earlier than 30 days before now.
C3_ThirtyDayWindow ==
  \A t \in Ts :
     (tasks[t].pc = "done" /\ tasks[t].batch # <<>>) =>
        \A i \in DOMAIN tasks[t].group_usernames :
           Warnings(t, i) = {} =>
              \A k \in DOMAIN SourceHistory(t, i) :
                 LET m == SourceHistory(t, i)[k]
                 IN  (HasBody(m) /\ Contains(m.text, tasks[t].batch)) =>
                        (MatchSent(t, i, k) <=> m.date >= clock - 30)

\* C4 (as stated): among the messages the search examines, one with a non-empty
\* body is sent as a match iff lower(token) occurs in lower(body).
C4_CaseInsensitive ==
  \A t \in Ts :
     (tasks[t].pc = "done" /\ tasks[t].batch # <<>>) =>
        \A i \in DOMAIN tasks[t].group_usernames :
           Warnings(t, i) = {} =>
              \A k \in DOMAIN SourceHistory(t, i) :
                 LET m == SourceHistory(t, i)[k]
                 IN  (HasBody(m) /\ Examined(m)) =>
                        (MatchSent(t, i, k) <=>
                           Contains(Lower(m.text), Lower(tasks[t].batch)))
\* C4 (amended): the test is case-sensitive.  Every match sent has a non-empty
\* body in which the token occurs with its letter case, and a completed search
\* has sent every examined message with a non-empty body in which it occurs.
C4_CaseSensitive ==
  \A t \in Ts :
     /\ \A j \in DOMAIN sent[tasks[t].chat] :
           LET s == sent[tasks[t].chat][j]
           IN  (s.kind = "match" /\ s.task = t) =>
                  LET m == SourceHistory(t, s.src)[s.idx]
                  IN  HasBody(m) /\ s.text = m.text /\
                      \E p \in 0..(Len(m.text) - Len(tasks[t].batch)) :
                         SubSeq(m.text, p + 1, p + Len(tasks[t].batch)) = tasks[t].batch
     /\ tasks[t].pc = "done" =>
           \A i \in DOMAIN tasks[t].group_usernames :
              Warnings(t, i) = {} =>
                 \A k \in DOMAIN SourceHistory(t, i) :
                    LET m == SourceHistory(t, i)[k]
                    IN  (HasBody(m) /\ Examined(m) /\ Contains(m.text, tasks[t].batch))
                           => MatchSent(t, i, k)
\* a completed search examined a body that holds the token only in another
\* letter case, and did not send it
C4_Witness ==
  \E t \in Ts :
     /\ tasks[t].pc = "done" /\ tasks[t].batch # <<>>
     /\ \E i \in DOMAIN tasks[t].group_usernames :
           /\ Warnings(t, i) = {}
           /\ \E k \in DOMAIN SourceHistory(t, i) :
                 LET m == SourceHistory(t, i)[k]
                 IN  /\ HasBody(m) /\ Examined(m)
                     /\ Contains(Lower(m.text), Lower(tasks[t].batch))
                     /\ ~Contains(m.text, tasks[t].batch)
                     /\ ~MatchSent(t, i, k)

\* C5: a completed search has found_any = (it sent at least one match) and
\* has sent exactly one not-found notice if it sent no match, none otherwise;
\* a search that has not completed has sent no not-found notice; the messages
\* of a search go to the chat it was dispatched for.
C5_FoundAggregation ==
  \A t \in Ts :
     /\ tasks[t].pc = "done" =>
           /\ tasks[t].found_any = (MatchCount(t) > 0)
           /\ NotFoundCount(t) = (IF MatchCount(t) = 0 THEN 1 ELSE 0)
     /\ tasks[t].pc # "done" => NotFoundCount(t) = 0
     /\ \A u \in Users \ {tasks[t].chat} : \A j \in DOMAIN sent[u] : sent[u][j].task # t
\* a completed search over at least one resolved source that sent no match
\* and one not-found notice
C5_Witness ==
  \E t \in Ts :
     /\ tasks[t].pc = "done" /\ MatchCount(t) = 0 /\ NotFoundCount(t) = 1
     /\ \E i \in DOMAIN tasks[t].group_usernames : Warnings(t, i) = {}

\* C9: a completed search has logged at most one warning per source, exactly
\* one for a source that failed to resolve and none otherwise; a failed source
\* contributed no match; every other source of the list was scanned (each of
\* its qualifying messages was sent); and if some other source held a
\* qualifying message the search ended found, with no not-found notice.
C9_ResolveFailureSkipsSource ==
  \A t \in Ts :
     /\ \A i \in DOMAIN tasks[t].group_usernames : Cardinality(Warnings(t, i)) <= 1
     /\ tasks[t].pc = "done" =>
           /\ \A i \in DOMAIN tasks[t].group_usernames :
                 /\ Warnings(t, i) # {} =>
                       \A j \in DOMAIN sent[tasks[t].chat] :
                          LET s == sent[tasks[t].chat][j]
                          IN  ~(s.kind = "match" /\ s.task = t /\ s.src = i)
                 /\ Warnings(t, i) = {} =>
                       \A k \in DOMAIN SourceHistory(t, i) :
                          LET m == SourceHistory(t, i)[k]
                          IN  (HasBody(m) /\ Examined(m) /\ Contains(m.text, tasks[t].batch))
                                 => MatchSent(t, i, k)
           /\ (\E i \in DOMAIN tasks[t].group_usernames :
                  /\ Warnings(t, i) = {}
                  /\ \E k \in DOMAIN SourceHistory(t, i) :
                        LET m == SourceHistory(t, i)[k]
                        IN  HasBody(m) /\ Examined(m) /\ Contains(m.text, tasks[t].batch))
              => (tasks[t].found_any /\ NotFoundCount(t) = 0)
\* the first source failed to resolve, the second was scanned and its
\* qualifying message sent
C9_Witness ==
  \E t \in Ts :
     /\ tasks[t].pc = "done"
     /\ Len(tasks[t].group_usernames) = 2
     /\ Cardinality(Warnings(t, 1)) = 1
     /\ Warnings(t, 2) = {}
     /\ \E k \in DOMAIN SourceHistory(t, 2) : MatchSent(t, 2, k)
     /\ NotFoundCount(t) = 0

\* C10: a search that has ended, also after a failure of a source's message
\* iterator, has gone through every source of its list and has sent its
\* matches or the not-found notice.
C10_IterationFailureRecovered ==
  \A t \in Ts :
     (tasks[t].pc \in {"done", "crashed"} /\ tasks[t].batch # <<>>) =>
        /\ tasks[t].gi > Len(tasks[t].group_usernames)
        /\ MatchCount(t) + NotFoundCount(t) > 0


\* ---- the order of the scan
\* the positions in chat c of the match messages of task t
MatchesOf(t) ==
  {j \in DOMAIN sent[tasks[t].chat] :
      sent[tasks[t].chat][j].kind = "match" /\ sent[tasks[t].chat][j].task = t}
\* the match messages of a search stand in its chat in source-list order and,
\* within a source, in the order of the iterator (ascending position in the
\* history, which the iterator walks newest first)
C11_SentInOrder ==
  \A t \in Ts : \A i, j \in MatchesOf(t) :
     i < j => LET a == sent[tasks[t].chat][i]
                  b == sent[tasks[t].chat][j]
              IN  a.src < b.src \/ (a.src = b.src /\ a.idx < b.idx)
\* a search moves to its next source only from the end of the iteration of
\* the current one (or from a failed resolution, or from the start), an
\* iteration starts only at the current source, and a match that a step sends
\* is the message the iterator of the current source yields next
C11_Step ==
  \A t \in Ts :
     /\ tasks'[t].gi # tasks[t].gi =>
           /\ tasks'[t].gi = tasks[t].gi + 1
           /\ \/ tasks[t].pc = "read"
              \/ tasks[t].pc = "resolve"
              \/ tasks[t].pc = "iter" /\ tasks[t].it = <<>>
     /\ (tasks[t].pc # "iter" /\ tasks'[t].pc = "iter") =>
           tasks[t].pc = "resolve" /\ tasks'[t].gi = tasks[t].gi
     /\ Len(sent'[tasks[t].chat]) > Len(sent[tasks[t].chat]) =>
           LET m == sent'[tasks[t].chat][Len(sent'[tasks[t].chat])]
           IN  m.kind = "match" =>
                  /\ tasks[t].pc = "iter" /\ tasks[t].it # <<>>
                  /\ m.src = tasks[t].gi /\ m.idx = Head(tasks[t].it)
                  /\ tasks'[t].it = Tail(tasks[t].it)
\* C11: within one search the sources are scanned one after the other in
\* source-list order (the iteration of a source begins only after the one
\* before it has ended), and the matches are sent in source-list order and,
\* within a source, in the order the iterator yielded them.
C11_SequentialOrder == [](C11_SentInOrder) /\ [][C11_Step]_vars
\* a completed search that sent two matches from its first source and then
\* one from a later source
C11_Witness ==
  \E t \in Ts :
     /\ tasks[t].pc = "done"
     /\ \E i, j, k \in MatchesOf(t) :
           /\ i < j /\ j < k
           /\ sent[tasks[t].chat][i].src = 1 /\ sent[tasks[t].chat][j].src = 1
           /\ sent[tasks[t].chat][k].src > 1


\* ---- the states of a conversation
\* the positions in chat u of the messages that mark a step of a session: the
\* join prompt of a start, the token prompt or the rejection of a check, the
\* acknowledgement of a token
SessionMarks(u) ==
  {i \in DOMAIN sent[u] : sent[u][i].kind \in {"join", "prompt", "reject", "ack"}}
\* the state in which the last of these messages left the session of u
SessionPhase(u) ==
  IF SessionMarks(u) = {} THEN "NONE"
  ELSE LET k == sent[u][Max(SessionMarks(u))].kind
       IN  CASE k = "join" -> "AWAITING_CHECK"
             [] k = "prompt" -> "AWAITING_TOKEN"
             [] OTHER -> "DONE"
\* C12 (as stated): a check is accepted only for a session that a start has
\* put in AWAITING_CHECK and that has not left it, so a session only moves
\* AWAITING_CHECK -> AWAITING_TOKEN -> DONE and never reaches AWAITING_TOKEN
\* again.
C12_ForwardOnly ==
  [][\A h \in DOMAIN handlers' :
        (Started(h) /\ handlers'[h].kind = "check")
           => SessionPhase(handlers'[h].user) = "AWAITING_CHECK"]_vars
\* the stored state is none or awaiting-token
C12_Stored == \A u \in Users : conv[u] \in {NoState, BATCH}
\* the steps that change the stored state of a user
C12_Step ==
  \A u \in Users :
     /\ (conv[u] = NoState /\ conv'[u] = BATCH) =>
           \E h \in DOMAIN handlers :
              /\ Finished(h) /\ handlers[h].user = u /\ handlers[h].pc = "c_return"
              /\ handlers[h].chan \in allowed /\ handlers[h].grp \in allowed
     /\ (conv[u] = BATCH /\ conv'[u] = NoState) =>
           \E h \in DOMAIN handlers :
              /\ Finished(h) /\ handlers[h].user = u
              /\ \/ handlers[h].pc = "b_dispatch"
                 \/ /\ handlers[h].pc = "c_return"
                    /\ ~(handlers[h].chan \in allowed /\ handlers[h].grp \in allowed)
     /\ \A h \in DOMAIN handlers :
           (Finished(h) /\ handlers[h].user = u /\ handlers[h].kind = "start")
              => conv'[u] = conv[u]
\* C12 (amended): the stored state of a conversation is none or
\* awaiting-token; it goes from none to awaiting-token only by the return of
\* a check with both statuses allowed, from awaiting-token to none only by a
\* token capture or the return of a denied check, and a start never changes
\* it.
C12_StoredStateMoves == [](C12_Stored) /\ [][C12_Step]_vars
\* a user who never sent a start is awaiting the token again after a token
\* capture that ended the conversation
C12_Witness ==
  /\ conv["u1"] = BATCH
  /\ \E t \in Ts : tasks[t].chat = "u1"
  /\ \A i \in DOMAIN sent["u1"] : sent["u1"][i].kind # "join"


\* ---- repeated checks
\* the replies (token prompt or rejection) of checks in chat u that follow
\* the last join prompt of the chat
RepliesSinceStart(u) ==
  LET joins == {i \in DOMAIN sent[u] : sent[u][i].kind = "join"}
  IN  IF joins = {} THEN {}
      ELSE {i \in DOMAIN sent[u] :
              i > Max(joins) /\ sent[u][i].kind \in {"prompt", "reject"}}
C13_Replied ==
  \A h \in Hs :
     handlers[h].pc = "c_return" =>
        /\ handlers[h].chan \in Statuses /\ handlers[h].grp \in Statuses
        /\ Cardinality(SentBy(handlers[h].user, h)) = 1
\* the return of a check stores the state its own result asks for, whatever
\* the state was
C13_Step ==
  \A h \in DOMAIN handlers :
     (Finished(h) /\ handlers[h].pc = "c_return") =>
        conv'[handlers[h].user] =
           (IF Permitted(handlers[h].chan, handlers[h].grp) THEN BATCH ELSE NoState)
SinkErrors(t, w) ==
  {k \in DOMAIN log : log[k].level = "error" /\ log[k].task = t /\ log[k].what = w}
AllSinkErrors(w) == {k \in DOMAIN log : log[k].level = "error" /\ log[k].what = w}
\* each search that is past an append has made exactly one attempt at it (a
\* line or row written, or an error logged), and a search that has not made
\* both attempts has scanned no source and sent nothing
C14_Attempts ==
  /\ Len(journal) + Cardinality(AllSinkErrors("data.txt")) =
        Cardinality({t \in Ts : tasks[t].pc # "journal"})
  /\ Len(sheetRows) + Cardinality(AllSinkErrors("sheet")) =
        Cardinality({t \in Ts : tasks[t].pc \notin {"journal", "sheet"}})
  /\ \A t \in Ts :
        /\ Cardinality(SinkErrors(t, "data.txt")) <= 1
        /\ Cardinality(SinkErrors(t, "sheet")) <= 1
        /\ tasks[t].pc \in {"journal", "sheet"} =>
              /\ tasks[t].gi = 0 /\ tasks[t].group_usernames = <<>>
              /\ MatchCount(t) + NotFoundCount(t) = 0
        /\ tasks[t].pc = "done" =>
              /\ tasks[t].gi > Len(tasks[t].group_usernames)
              /\ MatchCount(t) + NotFoundCount(t) > 0
\* an attempt at the journal is followed by the attempt at the sheet and that
\* by the reading of the source list, whether the write succeeded or not; a
\* write that failed left one error in the log
C14_Step ==
  \A t \in Ts :
     /\ (tasks[t].pc = "journal" /\ tasks'[t] # tasks[t]) =>
           /\ tasks'[t].pc = "sheet"
           /\ \/ Len(journal') = Len(journal) + 1 /\ log' = log
              \/ journal' = journal /\ Len(log') = Len(log) + 1
                   /\ log'[Len(log')] = LogRec("error", t, "data.txt", 0)
     /\ (tasks[t].pc = "sheet" /\ tasks'[t] # tasks[t]) =>
           /\ tasks'[t].pc = "read"
           /\ \/ Len(sheetRows') = Len(sheetRows) + 1 /\ log' = log
              \/ sheetRows' = sheetRows /\ Len(log') = Len(log) + 1
                   /\ log'[Len(log')] = LogRec("error", t, "sheet", 0)
\* C14: each dispatched search makes exactly one attempt to append to the
\* journal and exactly one to append to the sheet, both before it scans any
\* source; a failed append is logged as an error and prevents neither the
\* other append nor the scan and the sending of the matches or of the
\* not-found notice.
C14_SinkAppends == [](C14_Attempts) /\ [][C14_Step]_vars
\* both appends of a search failed and were logged, and the search completed
\* and sent a match
C14_Witness ==
  \E t \in Ts :
     /\ tasks[t].pc = "done"
     /\ Cardinality(SinkErrors(t, "data.txt")) = 1
     /\ Cardinality(SinkErrors(t, "sheet")) = 1
     /\ journal = <<>> /\ sheetRows = <<>>
     /\ MatchCount(t) > 0


\* ---- concurrent searches
\* C15: with two searches running at the same time, every message of a search
\* is in the chat it was dispatched for; its matches are posts of its own
\* sources that contain its own token and its notice names its own token; its
\* found flag says whether it has itself sent a match; and once it has
\* completed it has sent every qualifying post of each of its sources that
\* resolved, and the not-found notice iff it sent no match, whatever the other
\* search found.
C15_Isolation ==
  \A t \in Ts :
     /\ \A u \in Users : \A j \in DOMAIN sent[u] :
           sent[u][j].task = t =>
              /\ u = tasks[t].chat
              /\ sent[u][j].upd = tasks[t].upd
              /\ sent[u][j].kind = "notfound" => sent[u][j].text = tasks[t].batch
              /\ sent[u][j].kind = "match" =>
                    /\ sent[u][j].src \in DOMAIN tasks[t].group_usernames
                    /\ sent[u][j].idx \in DOMAIN SourceHistory(t, sent[u][j].src)
                    /\ sent[u][j].text = SourceHistory(t, sent[u][j].src)[sent[u][j].idx].text
                    /\ Contains(sent[u][j].text, tasks[t].batch)
     /\ tasks[t].found_any = (MatchCount(t) > 0)
     /\ tasks[t].pc = "done" =>
           /\ NotFoundCount(t) = (IF MatchCount(t) = 0 THEN 1 ELSE 0)
           /\ \A i \in DOMAIN tasks[t].group_usernames :
                 Warnings(t, i) = {} =>
                    \A k \in DOMAIN SourceHistory(t, i) :
                       LET m == SourceHistory(t, i)[k]
                       IN  (HasBody(m) /\ Examined(m) /\ Contains(m.text, tasks[t].batch))
                              => MatchSent(t, i, k)
\* two searches for two chats have completed: the first sent a match to its
\* chat and no notice, the second sent its chat the not-found notice only
C15_Witness ==
  /\ Len(tasks) = 2
  /\ tasks[1].chat # tasks[2].chat
  /\ tasks[1].pc = "done" /\ tasks[2].pc = "done"
  /\ MatchCount(1) > 0 /\ NotFoundCount(1) = 0
  /\ MatchCount(2) = 0 /\ NotFoundCount(2) = 1


\* ---- termination
\* no step removes a search or ends it other than by its own last step: the
\* searches dispatched so far stay, and a step that changes one is a step of
\* that search
C16_Step ==
  /\ Len(tasks') >= Len(tasks)
  /\ \A t \in Ts :
        /\ tasks'[t].chat = tasks[t].chat /\ tasks'[t].batch = tasks[t].batch
        /\ tasks'[t].pc # tasks[t].pc =>
              /\ handlers' = handlers /\ conv' = conv
              /\ tasks[t].pc \notin {"done", "crashed"}
              /\ tasks'[t].pc # "crashed"
\* a search that has completed has sent its chat a match or the notice; with
\* C16_Step, which keeps every dispatched search in the list, "from some time
\* on every search in the list has completed" says that each one completes
C16_Completed ==
  \A t \in Ts : tasks[t].pc = "done" => MatchCount(t) + NotFoundCount(t) > 0
\* C16: every dispatched search eventually completes, when its calls return
\* and the event loop runs it: no end of a conversation and no later event of
\* its user cancels it, and once it has completed its chat has received from
\* it at least one match or the not-found notice.
C16_Termination ==
  /\ [](C16_Completed)
  /\ [][C16_Step]_vars
  /\ <>[](\A t \in Ts : tasks[t].pc = "done")
\* a search has completed and sent a match although its conversation ended
\* when it was dispatched and its user sent a start afterwards
C16_Witness ==
  \E t \in Ts :
     /\ tasks[t].pc = "done"
     /\ MatchCount(t) > 0
     /\ conv[tasks[t].chat] = NoState
     /\ \E j \in DOMAIN sent[tasks[t].chat] :
           /\ sent[tasks[t].chat][j].kind = "join"
           /\ sent[tasks[t].chat][j].upd > tasks[t].upd


\* ---- the record of a capture
\* the five fields of the record of search t, in the order of the header row
Fields(t) ==
  <<tasks[t].full_name, tasks[t].username, tasks[t].batch, tasks[t].date_str,
    tasks[t].time_str>>
\* C17: every line of the journal, split at the separator, and every row of
\* the sheet is the record (Name, Username, Batch, Date, Time) of a search,
\* field by field.
C17_RoundTrip ==
  /\ \A k \in DOMAIN journal : \E t \in Ts : SplitComma(journal[k]) = Fields(t)
  /\ \A k \in DOMAIN sheetRows : \E t \in Ts : sheetRows[k] = Fields(t)


\* ---- commands while the token is awaited
\* only a text that is no command is in the hands of batch_handler
C18_TokenIsText ==
  \A h \in Hs : handlers[h].pc \in {"b_reply", "b_dispatch"} => handlers[h].kind = "text"
\* no handler starts for a command other than start; a start is answered by
\* start_handler, whose return changes neither the conversation nor the
\* searches, the journal or the sheet, so that a text is still routed to
\* batch_handler; and a search is dispatched only by the handler of a text
C18_Step ==
  /\ \A h \in DOMAIN handlers' :
        Started(h) =>
           /\ handlers'[h].kind # "command"
           /\ handlers'[h].kind = "start" => handlers'[h].pc = "s_reply"
  /\ \A h \in DOMAIN handlers :
        (Finished(h) /\ handlers[h].kind = "start") =>
           /\ conv' = conv /\ tasks' = tasks
           /\ journal' = journal /\ sheetRows' = sheetRows
           /\ conv[handlers[h].user] = BATCH =>
                 Route(conv'[handlers[h].user], "text") = "batch_handler"
  /\ Len(tasks') > Len(tasks) =>
        \E h \in DOMAIN handlers : Finished(h) /\ handlers[h].kind = "text"
\* C18: while a conversation awaits the token, a command is never taken as
\* the token: a start is answered with the join prompt only, any other
\* command is dropped, neither dispatches a search or writes a record, and
\* the conversation keeps awaiting the token, so that the next text that is
\* no command is taken as the token.
C18_CommandNotToken == [](C18_TokenIsText) /\ [][C18_Step]_vars
\* after the token prompt the user sent a start, which was answered with the
\* join prompt, and then the token, which was acknowledged and dispatched
C18_Witness ==
  \E t \in Ts : \E i, j, k \in DOMAIN sent[tasks[t].chat] :
     /\ i < j /\ j < k
     /\ sent[tasks[t].chat][i].kind = "prompt"
     /\ sent[tasks[t].chat][j].kind = "join"
     /\ sent[tasks[t].chat][i].upd < sent[tasks[t].chat][j].upd
     /\ sent[tasks[t].chat][k].kind = "ack"
     /\ sent[tasks[t].chat][k].upd = tasks[t].upd
     /\ sent[tasks[t].chat][j].upd < tasks[t].upd


\* ---- no source list
\* groups.txt is missing or has no line with anything but white space
NoSources ==
  ~groupsFile.exists \/ \A i \in DOMAIN groupsFile.lines : Strip(groupsFile.lines[i]) = <<>>
\* C19: when the source list is missing or holds no non-blank entry, a search
\* that has read it has an empty list of sources, resolves and scans nothing,
\* logs no warning, sends no match and does not end by an error; it sends the
\* not-found notice exactly once, as its last step.
C19_NoSourceList ==
  \A t \in Ts :
     (NoSources /\ tasks[t].pc \notin {"journal", "sheet", "read"}) =>
        /\ tasks[t].group_usernames = <<>>
        /\ tasks[t].pc \in {"final", "done"}
        /\ tasks[t].it = <<>> /\ ~tasks[t].found_any
        /\ \A k \in DOMAIN log : ~(log[k].task = t /\ log[k].level = "warning")
        /\ MatchCount(t) = 0
        /\ NotFoundCount(t) = (IF tasks[t].pc = "done" THEN 1 ELSE 0)
\* a search has completed without groups.txt and has sent the notice
C19_Witness ==
  \E t \in Ts :
     /\ ~groupsFile.exists
     /\ tasks[t].pc = "done"
     /\ tasks[t].batch # <<>>
     /\ NotFoundCount(t) = 1 /\ MatchCount(t) = 0

====
